---- MODULE Spec2Model ----
(***************************************************************************)
(* Movie recommender (src/git.py): the TMDB helpers fetch_movie_details    *)
(* and fetch_trailer, the ranking recommend(), the scan                    *)
(* filter_movies_by_criteria(), and the Streamlit script that calls them   *)
(* and shows what they return.                                             *)
(*                                                                         *)
(* Conventions.  A Python str that the code inspects (genres, cast, the    *)
(* rating text, the two filter boxes) is the sequence of its Unicode code  *)
(* points, so that lower(), float(), join and the `in` test are computed   *)
(* on it; titles, URLs and labels are only passed along and are TLA+       *)
(* strings.  Catalog positions are 0-based as in pandas; the TLA+          *)
(* sequences holding them are 1-based.  A float is given by its binary64   *)
(* mantissa and exponent, the mantissa as a decimal numeral.  JSON ratings *)
(* and min_rating are written in tenths (80 is the float 8.0), and         *)
(* similarity scores are integers: only their order is used by the code.   *)
(***************************************************************************)
EXTENDS Integers, Sequences, FiniteSets, Bags, TLC

\* ------------------------------------------------------------------ bounds
MaxMovies == 3
MaxScore == 2
MaxCount == 3

\* ----------------------------------------------------------------- strings
\* str.lower() (line 82), from the Unicode 14 tables of CPython 3.11.

\* the simple lower-case mappings: <<first, last, step, delta>> sends
\* first, first + step, ..., last each to itself + delta
LowerRanges ==
    <<
       <<65, 90, 1, 32>>, <<192, 214, 1, 32>>, <<216, 222, 1, 32>>, <<256, 302, 2, 1>>, <<306, 310, 2, 1>>,
       <<313, 327, 2, 1>>, <<330, 374, 2, 1>>, <<376, 376, 1, -121>>, <<377, 381, 2, 1>>, <<385, 385, 1, 210>>,
       <<386, 388, 2, 1>>, <<390, 390, 1, 206>>, <<391, 391, 1, 1>>, <<393, 394, 1, 205>>, <<395, 395, 1, 1>>,
       <<398, 398, 1, 79>>, <<399, 399, 1, 202>>, <<400, 400, 1, 203>>, <<401, 401, 1, 1>>, <<403, 403, 1, 205>>,
       <<404, 404, 1, 207>>, <<406, 406, 1, 211>>, <<407, 407, 1, 209>>, <<408, 408, 1, 1>>, <<412, 412, 1, 211>>,
       <<413, 413, 1, 213>>, <<415, 415, 1, 214>>, <<416, 420, 2, 1>>, <<422, 422, 1, 218>>, <<423, 423, 1, 1>>,
       <<425, 425, 1, 218>>, <<428, 428, 1, 1>>, <<430, 430, 1, 218>>, <<431, 431, 1, 1>>, <<433, 434, 1, 217>>,
       <<435, 437, 2, 1>>, <<439, 439, 1, 219>>, <<440, 440, 1, 1>>, <<444, 444, 1, 1>>, <<452, 452, 1, 2>>,
       <<453, 453, 1, 1>>, <<455, 455, 1, 2>>, <<456, 456, 1, 1>>, <<458, 458, 1, 2>>, <<459, 475, 2, 1>>,
       <<478, 494, 2, 1>>, <<497, 497, 1, 2>>, <<498, 500, 2, 1>>, <<502, 502, 1, -97>>, <<503, 503, 1, -56>>,
       <<504, 542, 2, 1>>, <<544, 544, 1, -130>>, <<546, 562, 2, 1>>, <<570, 570, 1, 10795>>, <<571, 571, 1, 1>>,
       <<573, 573, 1, -163>>, <<574, 574, 1, 10792>>, <<577, 577, 1, 1>>, <<579, 579, 1, -195>>, <<580, 580, 1, 69>>,
       <<581, 581, 1, 71>>, <<582, 590, 2, 1>>, <<880, 882, 2, 1>>, <<886, 886, 1, 1>>, <<895, 895, 1, 116>>,
       <<902, 902, 1, 38>>, <<904, 906, 1, 37>>, <<908, 908, 1, 64>>, <<910, 911, 1, 63>>, <<913, 929, 1, 32>>,
       <<931, 939, 1, 32>>, <<975, 975, 1, 8>>, <<984, 1006, 2, 1>>, <<1012, 1012, 1, -60>>, <<1015, 1015, 1, 1>>,
       <<1017, 1017, 1, -7>>, <<1018, 1018, 1, 1>>, <<1021, 1023, 1, -130>>, <<1024, 1039, 1, 80>>, <<1040, 1071, 1, 32>>,
       <<1120, 1152, 2, 1>>, <<1162, 1214, 2, 1>>, <<1216, 1216, 1, 15>>, <<1217, 1229, 2, 1>>, <<1232, 1326, 2, 1>>,
       <<1329, 1366, 1, 48>>, <<4256, 4293, 1, 7264>>, <<4295, 4295, 1, 7264>>, <<4301, 4301, 1, 7264>>, <<5024, 5103, 1, 38864>>,
       <<5104, 5109, 1, 8>>, <<7312, 7354, 1, -3008>>, <<7357, 7359, 1, -3008>>, <<7680, 7828, 2, 1>>, <<7838, 7838, 1, -7615>>,
       <<7840, 7934, 2, 1>>, <<7944, 7951, 1, -8>>, <<7960, 7965, 1, -8>>, <<7976, 7983, 1, -8>>, <<7992, 7999, 1, -8>>,
       <<8008, 8013, 1, -8>>, <<8025, 8031, 2, -8>>, <<8040, 8047, 1, -8>>, <<8072, 8079, 1, -8>>, <<8088, 8095, 1, -8>>,
       <<8104, 8111, 1, -8>>, <<8120, 8121, 1, -8>>, <<8122, 8123, 1, -74>>, <<8124, 8124, 1, -9>>, <<8136, 8139, 1, -86>>,
       <<8140, 8140, 1, -9>>, <<8152, 8153, 1, -8>>, <<8154, 8155, 1, -100>>, <<8168, 8169, 1, -8>>, <<8170, 8171, 1, -112>>,
       <<8172, 8172, 1, -7>>, <<8184, 8185, 1, -128>>, <<8186, 8187, 1, -126>>, <<8188, 8188, 1, -9>>, <<8486, 8486, 1, -7517>>,
       <<8490, 8490, 1, -8383>>, <<8491, 8491, 1, -8262>>, <<8498, 8498, 1, 28>>, <<8544, 8559, 1, 16>>, <<8579, 8579, 1, 1>>,
       <<9398, 9423, 1, 26>>, <<11264, 11311, 1, 48>>, <<11360, 11360, 1, 1>>, <<11362, 11362, 1, -10743>>, <<11363, 11363, 1, -3814>>,
       <<11364, 11364, 1, -10727>>, <<11367, 11371, 2, 1>>, <<11373, 11373, 1, -10780>>, <<11374, 11374, 1, -10749>>, <<11375, 11375, 1, -10783>>,
       <<11376, 11376, 1, -10782>>, <<11378, 11378, 1, 1>>, <<11381, 11381, 1, 1>>, <<11390, 11391, 1, -10815>>, <<11392, 11490, 2, 1>>,
       <<11499, 11501, 2, 1>>, <<11506, 11506, 1, 1>>, <<42560, 42604, 2, 1>>, <<42624, 42650, 2, 1>>, <<42786, 42798, 2, 1>>,
       <<42802, 42862, 2, 1>>, <<42873, 42875, 2, 1>>, <<42877, 42877, 1, -35332>>, <<42878, 42886, 2, 1>>, <<42891, 42891, 1, 1>>,
       <<42893, 42893, 1, -42280>>, <<42896, 42898, 2, 1>>, <<42902, 42920, 2, 1>>, <<42922, 42922, 1, -42308>>, <<42923, 42923, 1, -42319>>,
       <<42924, 42924, 1, -42315>>, <<42925, 42925, 1, -42305>>, <<42926, 42926, 1, -42308>>, <<42928, 42928, 1, -42258>>, <<42929, 42929, 1, -42282>>,
       <<42930, 42930, 1, -42261>>, <<42931, 42931, 1, 928>>, <<42932, 42946, 2, 1>>, <<42948, 42948, 1, -48>>, <<42949, 42949, 1, -42307>>,
       <<42950, 42950, 1, -35384>>, <<42951, 42953, 2, 1>>, <<42960, 42960, 1, 1>>, <<42966, 42968, 2, 1>>, <<42997, 42997, 1, 1>>,
       <<65313, 65338, 1, 32>>, <<66560, 66599, 1, 40>>, <<66736, 66771, 1, 40>>, <<66928, 66964, 2, 39>>, <<66929, 66938, 1, 39>>,
       <<66941, 66954, 1, 39>>, <<66957, 66962, 1, 39>>, <<66965, 66965, 1, 39>>, <<68736, 68786, 1, 64>>, <<71840, 71871, 1, 32>>,
       <<93760, 93791, 1, 32>>, <<125184, 125217, 1, 34>>
    >>

\* the cased characters (lower case, upper case or title case), as ranges
CasedRanges ==
    <<
       <<65, 90>>, <<97, 122>>, <<170, 170>>, <<181, 181>>, <<186, 186>>, <<192, 214>>, <<216, 246>>,
       <<248, 442>>, <<444, 447>>, <<452, 659>>, <<661, 696>>, <<704, 705>>, <<736, 740>>, <<837, 837>>,
       <<880, 883>>, <<886, 887>>, <<890, 893>>, <<895, 895>>, <<902, 902>>, <<904, 906>>, <<908, 908>>,
       <<910, 929>>, <<931, 1013>>, <<1015, 1153>>, <<1162, 1327>>, <<1329, 1366>>, <<1376, 1416>>, <<4256, 4293>>,
       <<4295, 4295>>, <<4301, 4301>>, <<4304, 4346>>, <<4349, 4351>>, <<5024, 5109>>, <<5112, 5117>>, <<7296, 7304>>,
       <<7312, 7354>>, <<7357, 7359>>, <<7424, 7615>>, <<7680, 7957>>, <<7960, 7965>>, <<7968, 8005>>, <<8008, 8013>>,
       <<8016, 8023>>, <<8025, 8025>>, <<8027, 8027>>, <<8029, 8029>>, <<8031, 8061>>, <<8064, 8116>>, <<8118, 8124>>,
       <<8126, 8126>>, <<8130, 8132>>, <<8134, 8140>>, <<8144, 8147>>, <<8150, 8155>>, <<8160, 8172>>, <<8178, 8180>>,
       <<8182, 8188>>, <<8305, 8305>>, <<8319, 8319>>, <<8336, 8348>>, <<8450, 8450>>, <<8455, 8455>>, <<8458, 8467>>,
       <<8469, 8469>>, <<8473, 8477>>, <<8484, 8484>>, <<8486, 8486>>, <<8488, 8488>>, <<8490, 8493>>, <<8495, 8500>>,
       <<8505, 8505>>, <<8508, 8511>>, <<8517, 8521>>, <<8526, 8526>>, <<8544, 8575>>, <<8579, 8580>>, <<9398, 9449>>,
       <<11264, 11492>>, <<11499, 11502>>, <<11506, 11507>>, <<11520, 11557>>, <<11559, 11559>>, <<11565, 11565>>, <<42560, 42605>>,
       <<42624, 42653>>, <<42786, 42887>>, <<42891, 42894>>, <<42896, 42954>>, <<42960, 42961>>, <<42963, 42963>>, <<42965, 42969>>,
       <<42997, 42998>>, <<43000, 43002>>, <<43824, 43866>>, <<43868, 43880>>, <<43888, 43967>>, <<64256, 64262>>, <<64275, 64279>>,
       <<65313, 65338>>, <<65345, 65370>>, <<66560, 66639>>, <<66736, 66771>>, <<66776, 66811>>, <<66928, 66938>>, <<66940, 66954>>,
       <<66956, 66962>>, <<66964, 66965>>, <<66967, 66977>>, <<66979, 66993>>, <<66995, 67001>>, <<67003, 67004>>, <<67456, 67456>>,
       <<67459, 67461>>, <<67463, 67504>>, <<67506, 67514>>, <<68736, 68786>>, <<68800, 68850>>, <<71840, 71903>>, <<93760, 93823>>,
       <<119808, 119892>>, <<119894, 119964>>, <<119966, 119967>>, <<119970, 119970>>, <<119973, 119974>>, <<119977, 119980>>, <<119982, 119993>>,
       <<119995, 119995>>, <<119997, 120003>>, <<120005, 120069>>, <<120071, 120074>>, <<120077, 120084>>, <<120086, 120092>>, <<120094, 120121>>,
       <<120123, 120126>>, <<120128, 120132>>, <<120134, 120134>>, <<120138, 120144>>, <<120146, 120485>>, <<120488, 120512>>, <<120514, 120538>>,
       <<120540, 120570>>, <<120572, 120596>>, <<120598, 120628>>, <<120630, 120654>>, <<120656, 120686>>, <<120688, 120712>>, <<120714, 120744>>,
       <<120746, 120770>>, <<120772, 120779>>, <<122624, 122633>>, <<122635, 122654>>, <<125184, 125251>>, <<127280, 127305>>, <<127312, 127337>>,
       <<127344, 127369>>
    >>

\* the case-ignorable characters, as ranges
CaseIgnorableRanges ==
    <<
       <<39, 39>>, <<46, 46>>, <<58, 58>>, <<94, 94>>, <<96, 96>>, <<168, 168>>, <<173, 173>>,
       <<175, 175>>, <<180, 180>>, <<183, 184>>, <<688, 879>>, <<884, 885>>, <<890, 890>>, <<900, 901>>,
       <<903, 903>>, <<1155, 1161>>, <<1369, 1369>>, <<1375, 1375>>, <<1425, 1469>>, <<1471, 1471>>, <<1473, 1474>>,
       <<1476, 1477>>, <<1479, 1479>>, <<1524, 1524>>, <<1536, 1541>>, <<1552, 1562>>, <<1564, 1564>>, <<1600, 1600>>,
       <<1611, 1631>>, <<1648, 1648>>, <<1750, 1757>>, <<1759, 1768>>, <<1770, 1773>>, <<1807, 1807>>, <<1809, 1809>>,
       <<1840, 1866>>, <<1958, 1968>>, <<2027, 2037>>, <<2042, 2042>>, <<2045, 2045>>, <<2070, 2093>>, <<2137, 2139>>,
       <<2184, 2184>>, <<2192, 2193>>, <<2200, 2207>>, <<2249, 2306>>, <<2362, 2362>>, <<2364, 2364>>, <<2369, 2376>>,
       <<2381, 2381>>, <<2385, 2391>>, <<2402, 2403>>, <<2417, 2417>>, <<2433, 2433>>, <<2492, 2492>>, <<2497, 2500>>,
       <<2509, 2509>>, <<2530, 2531>>, <<2558, 2558>>, <<2561, 2562>>, <<2620, 2620>>, <<2625, 2626>>, <<2631, 2632>>,
       <<2635, 2637>>, <<2641, 2641>>, <<2672, 2673>>, <<2677, 2677>>, <<2689, 2690>>, <<2748, 2748>>, <<2753, 2757>>,
       <<2759, 2760>>, <<2765, 2765>>, <<2786, 2787>>, <<2810, 2815>>, <<2817, 2817>>, <<2876, 2876>>, <<2879, 2879>>,
       <<2881, 2884>>, <<2893, 2893>>, <<2901, 2902>>, <<2914, 2915>>, <<2946, 2946>>, <<3008, 3008>>, <<3021, 3021>>,
       <<3072, 3072>>, <<3076, 3076>>, <<3132, 3132>>, <<3134, 3136>>, <<3142, 3144>>, <<3146, 3149>>, <<3157, 3158>>,
       <<3170, 3171>>, <<3201, 3201>>, <<3260, 3260>>, <<3263, 3263>>, <<3270, 3270>>, <<3276, 3277>>, <<3298, 3299>>,
       <<3328, 3329>>, <<3387, 3388>>, <<3393, 3396>>, <<3405, 3405>>, <<3426, 3427>>, <<3457, 3457>>, <<3530, 3530>>,
       <<3538, 3540>>, <<3542, 3542>>, <<3633, 3633>>, <<3636, 3642>>, <<3654, 3662>>, <<3761, 3761>>, <<3764, 3772>>,
       <<3782, 3782>>, <<3784, 3789>>, <<3864, 3865>>, <<3893, 3893>>, <<3895, 3895>>, <<3897, 3897>>, <<3953, 3966>>,
       <<3968, 3972>>, <<3974, 3975>>, <<3981, 3991>>, <<3993, 4028>>, <<4038, 4038>>, <<4141, 4144>>, <<4146, 4151>>,
       <<4153, 4154>>, <<4157, 4158>>, <<4184, 4185>>, <<4190, 4192>>, <<4209, 4212>>, <<4226, 4226>>, <<4229, 4230>>,
       <<4237, 4237>>, <<4253, 4253>>, <<4348, 4348>>, <<4957, 4959>>, <<5906, 5908>>, <<5938, 5939>>, <<5970, 5971>>,
       <<6002, 6003>>, <<6068, 6069>>, <<6071, 6077>>, <<6086, 6086>>, <<6089, 6099>>, <<6103, 6103>>, <<6109, 6109>>,
       <<6155, 6159>>, <<6211, 6211>>, <<6277, 6278>>, <<6313, 6313>>, <<6432, 6434>>, <<6439, 6440>>, <<6450, 6450>>,
       <<6457, 6459>>, <<6679, 6680>>, <<6683, 6683>>, <<6742, 6742>>, <<6744, 6750>>, <<6752, 6752>>, <<6754, 6754>>,
       <<6757, 6764>>, <<6771, 6780>>, <<6783, 6783>>, <<6823, 6823>>, <<6832, 6862>>, <<6912, 6915>>, <<6964, 6964>>,
       <<6966, 6970>>, <<6972, 6972>>, <<6978, 6978>>, <<7019, 7027>>, <<7040, 7041>>, <<7074, 7077>>, <<7080, 7081>>,
       <<7083, 7085>>, <<7142, 7142>>, <<7144, 7145>>, <<7149, 7149>>, <<7151, 7153>>, <<7212, 7219>>, <<7222, 7223>>,
       <<7288, 7293>>, <<7376, 7378>>, <<7380, 7392>>, <<7394, 7400>>, <<7405, 7405>>, <<7412, 7412>>, <<7416, 7417>>,
       <<7468, 7530>>, <<7544, 7544>>, <<7579, 7679>>, <<8125, 8125>>, <<8127, 8129>>, <<8141, 8143>>, <<8157, 8159>>,
       <<8173, 8175>>, <<8189, 8190>>, <<8203, 8207>>, <<8216, 8217>>, <<8228, 8228>>, <<8231, 8231>>, <<8234, 8238>>,
       <<8288, 8292>>, <<8294, 8303>>, <<8305, 8305>>, <<8319, 8319>>, <<8336, 8348>>, <<8400, 8432>>, <<11388, 11389>>,
       <<11503, 11505>>, <<11631, 11631>>, <<11647, 11647>>, <<11744, 11775>>, <<11823, 11823>>, <<12293, 12293>>, <<12330, 12333>>,
       <<12337, 12341>>, <<12347, 12347>>, <<12441, 12446>>, <<12540, 12542>>, <<40981, 40981>>, <<42232, 42237>>, <<42508, 42508>>,
       <<42607, 42610>>, <<42612, 42621>>, <<42623, 42623>>, <<42652, 42655>>, <<42736, 42737>>, <<42752, 42785>>, <<42864, 42864>>,
       <<42888, 42890>>, <<42994, 42996>>, <<43000, 43001>>, <<43010, 43010>>, <<43014, 43014>>, <<43019, 43019>>, <<43045, 43046>>,
       <<43052, 43052>>, <<43204, 43205>>, <<43232, 43249>>, <<43263, 43263>>, <<43302, 43309>>, <<43335, 43345>>, <<43392, 43394>>,
       <<43443, 43443>>, <<43446, 43449>>, <<43452, 43453>>, <<43471, 43471>>, <<43493, 43494>>, <<43561, 43566>>, <<43569, 43570>>,
       <<43573, 43574>>, <<43587, 43587>>, <<43596, 43596>>, <<43632, 43632>>, <<43644, 43644>>, <<43696, 43696>>, <<43698, 43700>>,
       <<43703, 43704>>, <<43710, 43711>>, <<43713, 43713>>, <<43741, 43741>>, <<43756, 43757>>, <<43763, 43764>>, <<43766, 43766>>,
       <<43867, 43871>>, <<43881, 43883>>, <<44005, 44005>>, <<44008, 44008>>, <<44013, 44013>>, <<64286, 64286>>, <<64434, 64450>>,
       <<65024, 65039>>, <<65043, 65043>>, <<65056, 65071>>, <<65106, 65106>>, <<65109, 65109>>, <<65279, 65279>>, <<65287, 65287>>,
       <<65294, 65294>>, <<65306, 65306>>, <<65342, 65342>>, <<65344, 65344>>, <<65392, 65392>>, <<65438, 65439>>, <<65507, 65507>>,
       <<65529, 65531>>, <<66045, 66045>>, <<66272, 66272>>, <<66422, 66426>>, <<67456, 67461>>, <<67463, 67504>>, <<67506, 67514>>,
       <<68097, 68099>>, <<68101, 68102>>, <<68108, 68111>>, <<68152, 68154>>, <<68159, 68159>>, <<68325, 68326>>, <<68900, 68903>>,
       <<69291, 69292>>, <<69446, 69456>>, <<69506, 69509>>, <<69633, 69633>>, <<69688, 69702>>, <<69744, 69744>>, <<69747, 69748>>,
       <<69759, 69761>>, <<69811, 69814>>, <<69817, 69818>>, <<69821, 69821>>, <<69826, 69826>>, <<69837, 69837>>, <<69888, 69890>>,
       <<69927, 69931>>, <<69933, 69940>>, <<70003, 70003>>, <<70016, 70017>>, <<70070, 70078>>, <<70089, 70092>>, <<70095, 70095>>,
       <<70191, 70193>>, <<70196, 70196>>, <<70198, 70199>>, <<70206, 70206>>, <<70367, 70367>>, <<70371, 70378>>, <<70400, 70401>>,
       <<70459, 70460>>, <<70464, 70464>>, <<70502, 70508>>, <<70512, 70516>>, <<70712, 70719>>, <<70722, 70724>>, <<70726, 70726>>,
       <<70750, 70750>>, <<70835, 70840>>, <<70842, 70842>>, <<70847, 70848>>, <<70850, 70851>>, <<71090, 71093>>, <<71100, 71101>>,
       <<71103, 71104>>, <<71132, 71133>>, <<71219, 71226>>, <<71229, 71229>>, <<71231, 71232>>, <<71339, 71339>>, <<71341, 71341>>,
       <<71344, 71349>>, <<71351, 71351>>, <<71453, 71455>>, <<71458, 71461>>, <<71463, 71467>>, <<71727, 71735>>, <<71737, 71738>>,
       <<71995, 71996>>, <<71998, 71998>>, <<72003, 72003>>, <<72148, 72151>>, <<72154, 72155>>, <<72160, 72160>>, <<72193, 72202>>,
       <<72243, 72248>>, <<72251, 72254>>, <<72263, 72263>>, <<72273, 72278>>, <<72281, 72283>>, <<72330, 72342>>, <<72344, 72345>>,
       <<72752, 72758>>, <<72760, 72765>>, <<72767, 72767>>, <<72850, 72871>>, <<72874, 72880>>, <<72882, 72883>>, <<72885, 72886>>,
       <<73009, 73014>>, <<73018, 73018>>, <<73020, 73021>>, <<73023, 73029>>, <<73031, 73031>>, <<73104, 73105>>, <<73109, 73109>>,
       <<73111, 73111>>, <<73459, 73460>>, <<78896, 78904>>, <<92912, 92916>>, <<92976, 92982>>, <<92992, 92995>>, <<94031, 94031>>,
       <<94095, 94111>>, <<94176, 94177>>, <<94179, 94180>>, <<110576, 110579>>, <<110581, 110587>>, <<110589, 110590>>, <<113821, 113822>>,
       <<113824, 113827>>, <<118528, 118573>>, <<118576, 118598>>, <<119143, 119145>>, <<119155, 119170>>, <<119173, 119179>>, <<119210, 119213>>,
       <<119362, 119364>>, <<121344, 121398>>, <<121403, 121452>>, <<121461, 121461>>, <<121476, 121476>>, <<121499, 121503>>, <<121505, 121519>>,
       <<122880, 122886>>, <<122888, 122904>>, <<122907, 122913>>, <<122915, 122916>>, <<122918, 122922>>, <<123184, 123197>>, <<123566, 123566>>,
       <<123628, 123631>>, <<125136, 125142>>, <<125252, 125259>>, <<127995, 127999>>, <<917505, 917505>>, <<917536, 917631>>, <<917760, 917999>>
    >>

InRanges(c, rs) == \E k \in 1..Len(rs) : rs[k][1] <= c /\ c <= rs[k][2]

\* c is mapped by the row r of LowerRanges
InRow(c, r) == r[1] <= c /\ c <= r[2] /\ (c - r[1]) % r[3] = 0

\* the one-character lower case of c; ASCII is mapped without the tables
ToLower(c) ==
    IF c < 128 THEN (IF 65 <= c /\ c <= 90 THEN c + 32 ELSE c)
    ELSE IF \E k \in 1..Len(LowerRanges) : InRow(c, LowerRanges[k])
         THEN c + LowerRanges[CHOOSE k \in 1..Len(LowerRanges) : InRow(c, LowerRanges[k])][4]
         ELSE c

IsCased(c) == InRanges(c, CasedRanges)
CaseIgnorable(c) == InRanges(c, CaseIgnorableRanges)

\* str.lower() on one character: a str, since the capital I with dot above
\* (304) becomes two characters, i and the combining dot above
LowerChar(c) == IF c = 304 THEN <<105, 775>> ELSE <<ToLower(c)>>

\* the capital sigma at s[n] ends a word: the nearest character before it
\* that is not case-ignorable is cased, and the nearest one after it that is
\* not case-ignorable, if any, is not cased
FinalSigma(s, n) ==
    /\ \E j \in 1..(n - 1) :
          /\ ~CaseIgnorable(s[j]) /\ IsCased(s[j])
          /\ \A k \in (j + 1)..(n - 1) : CaseIgnorable(s[k])
    /\ ~\E j \in (n + 1)..Len(s) :
          /\ ~CaseIgnorable(s[j]) /\ IsCased(s[j])
          /\ \A k \in (n + 1)..(j - 1) : CaseIgnorable(s[k])

\* the sum of f over S; f maps S to naturals
Sum(f, S) == BagCardinality([n \in {m \in S : f[m] > 0} |-> f[n]])

\* the strs of ss one after the other
Flatten(ss) ==
    LET before(n) == Sum([m \in 1..(n - 1) |-> Len(ss[m])], 1..(n - 1))
        part(p) == CHOOSE n \in 1..Len(ss) : before(n) < p /\ p <= before(n) + Len(ss[n])
    IN  IF \A n \in 1..Len(ss) : Len(ss[n]) = 1
        THEN <<>> \o [n \in 1..Len(ss) |-> ss[n][1]]
        ELSE <<>> \o [p \in 1..before(Len(ss) + 1) |-> ss[part(p)][p - before(part(p))]]

\* str.lower(): character by character, except that a capital sigma (931)
\* becomes the final small sigma (962) where it ends a word, and the small
\* sigma (963) elsewhere
Lower(s) ==
    Flatten(<<>> \o [n \in 1..Len(s) |->
                IF s[n] = 931
                THEN <<IF FinalSigma(s, n) THEN 962 ELSE 963>>
                ELSE LowerChar(s[n])])

\* Python's `sub in s` on strs
Contains(sub, s) ==
    \E off \in 0..(Len(s) - Len(sub)) : SubSeq(s, off + 1, off + Len(sub)) = sub

\* sep.join(parts)
RECURSIVE Join(_, _)
Join(sep, parts) ==
    IF Len(parts) = 0 THEN <<>>
    ELSE IF Len(parts) = 1 THEN parts[1]
    ELSE parts[1] \o sep \o Join(sep, Tail(parts))

CommaSpace == <<44, 32>>

\* Python's seq[a:b] for 0 <= a, 0 <= b
Slice(s, a, b) ==
    LET hi == IF b < Len(s) THEN b ELSE Len(s)
    IN  IF a >= hi THEN <<>> ELSE SubSeq(s, a + 1, hi)

\* ---------------------------------------------------------- rating values
\* A rating is a JSON number (in tenths), a str, or None
NumRating(n) == [kind |-> "num", num |-> n, str |-> <<>>]
StrRating(s) == [kind |-> "str", num |-> 0, str |-> s]
NoneRating == [kind |-> "none", num |-> 0, str |-> <<>>]

NA == <<78, 47, 65>>    \* "N/A"

\* ------------------------------------------------------------------ float()
\* float() at line 84, as CPython computes it: PyFloat_FromString and the
\* correctly rounded _Py_dg_strtod.

\* the decimal digits of Unicode, in runs that start at a zero digit
DigitRanges ==
    <<
       <<48, 57>>, <<1632, 1641>>, <<1776, 1785>>, <<1984, 1993>>, <<2406, 2415>>, <<2534, 2543>>,
       <<2662, 2671>>, <<2790, 2799>>, <<2918, 2927>>, <<3046, 3055>>, <<3174, 3183>>, <<3302, 3311>>,
       <<3430, 3439>>, <<3558, 3567>>, <<3664, 3673>>, <<3792, 3801>>, <<3872, 3881>>, <<4160, 4169>>,
       <<4240, 4249>>, <<6112, 6121>>, <<6160, 6169>>, <<6470, 6479>>, <<6608, 6617>>, <<6784, 6793>>,
       <<6800, 6809>>, <<6992, 7001>>, <<7088, 7097>>, <<7232, 7241>>, <<7248, 7257>>, <<42528, 42537>>,
       <<43216, 43225>>, <<43264, 43273>>, <<43472, 43481>>, <<43504, 43513>>, <<43600, 43609>>, <<44016, 44025>>,
       <<65296, 65305>>, <<66720, 66729>>, <<68912, 68921>>, <<69734, 69743>>, <<69872, 69881>>, <<69942, 69951>>,
       <<70096, 70105>>, <<70384, 70393>>, <<70736, 70745>>, <<70864, 70873>>, <<71248, 71257>>, <<71360, 71369>>,
       <<71472, 71481>>, <<71904, 71913>>, <<72016, 72025>>, <<72784, 72793>>, <<73040, 73049>>, <<73120, 73129>>,
       <<92768, 92777>>, <<92864, 92873>>, <<93008, 93017>>, <<120782, 120831>>, <<123200, 123209>>, <<123632, 123641>>,
       <<125264, 125273>>, <<130032, 130041>>
    >>

IsDigit(c) == IF c < 128 THEN 48 <= c /\ c <= 57 ELSE InRanges(c, DigitRanges)
DigitVal(c) ==
    LET k == CHOOSE r \in 1..Len(DigitRanges) :
                 DigitRanges[r][1] <= c /\ c <= DigitRanges[r][2]
    IN  (c - DigitRanges[k][1]) % 10

\* _PyUnicode_TransformDecimalAndSpaceToASCII, one character: a space
\* (Py_UNICODE_ISSPACE) or a decimal digit above ASCII becomes its ASCII
\* form, any other character above ASCII becomes "?"
ToAsciiChar(c) ==
    IF c < 127 THEN c
    ELSE IF c \in {133, 160, 5760, 8232, 8233, 8239, 8287, 12288} \cup (8192..8202) THEN 32
    ELSE IF IsDigit(c) THEN 48 + DigitVal(c)
    ELSE 63
ToAscii(s) == [n \in 1..Len(s) |-> ToAsciiChar(s[n])]

AsciiDigit(c) == 48 <= c /\ c <= 57
AllDigits(s) == \A n \in 1..Len(s) : AsciiDigit(s[n])
Numeral(s) == [n \in 1..Len(s) |-> s[n] - 48]

\* leading and trailing Py_ISSPACE characters (9..13 and 32) dropped
Strip(s) ==
    LET kept == {n \in 1..Len(s) : s[n] \notin (9..13) \cup {32}}
        first == CHOOSE n \in kept : \A m \in kept : n <= m
        last == CHOOSE n \in kept : \A m \in kept : m <= n
    IN  IF kept = {} THEN <<>> ELSE SubSeq(s, first, last)

\* an underscore is allowed between two digits only
UnderscoresOk(s) ==
    \A n \in 1..Len(s) :
        s[n] = 95 => n > 1 /\ n < Len(s) /\ AsciiDigit(s[n - 1]) /\ AsciiDigit(s[n + 1])
NotUnderscore(c) == c # 95

\* the first place of s holding a character of cs, 0 if none
FirstOf(s, cs) ==
    IF \E n \in 1..Len(s) : s[n] \in cs
    THEN CHOOSE n \in 1..Len(s) : s[n] \in cs /\ \A m \in 1..(n - 1) : s[m] \notin cs
    ELSE 0

\* s without its sign, "+" or "-"
Unsigned(s) == IF Len(s) > 0 /\ s[1] \in {43, 45} THEN Tail(s) ELSE s
IsNegative(s) == Len(s) > 0 /\ s[1] = 45


\* ---- decimal numerals: digit values, most significant first, no leading
\* zero; <<>> is 0.  An operand that is read more than once is bound first
\* (x \in {a}), so that it is computed a single time.
NoLeadingZeros(a) ==
    CHOOSE r \in
        {IF \A n \in 1..Len(x) : x[n] = 0 THEN <<>>
         ELSE SubSeq(x, CHOOSE n \in 1..Len(x) :
                            x[n] # 0 /\ \A m \in 1..(n - 1) : x[m] = 0,
                     Len(x))
         : x \in {a}} : TRUE

NumLess(a, b) ==
    \E x \in {a}, y \in {b} :
        \/ Len(x) < Len(y)
        \/ /\ Len(x) = Len(y)
           /\ \E n \in 1..Len(x) :
                 /\ x[n] < y[n]
                 /\ \A m \in 1..(n - 1) : x[m] = y[m]

\* columns of naturals below 10^6 as columns below 60: each column hands
\* its tens, hundreds, ... to the columns on its left
Spread(c) ==
    CHOOSE r \in
        {<<0, 0, 0, 0, 0>> \o
            [p \in 1..Len(x) |->
                Sum([d \in 0..5 |-> IF p + d <= Len(x) THEN (x[p + d] \div (10 ^ d)) % 10 ELSE 0],
                    0..5)]
         : x \in {c}} : TRUE

\* one carry pass: a column keeps its units and takes the tens of the
\* column on its right
CarryPass(c) ==
    CHOOSE r \in
        {<<0>> \o [p \in 1..Len(x) |->
                     (x[p] % 10) + (IF p < Len(x) THEN x[p + 1] \div 10 ELSE 0)]
         : x \in {c}} : TRUE

\* the digits of columns that hold 0..18 each: a column receives a carry
\* when a column on its right holds 10 or more and the columns between
\* hold 9
Ripple(c) ==
    CHOOSE r \in
        {<<>> \o [p \in 1..Len(x) |->
                    (x[p] + (IF \E j \in (p + 1)..Len(x) :
                                    x[j] >= 10 /\ \A m \in (p + 1)..(j - 1) : x[m] = 9
                             THEN 1 ELSE 0)) % 10]
         : x \in {c}} : TRUE

\* a * b, by columns
Times(a, b) ==
    CHOOSE r \in
        {IF Len(x) = 0 \/ Len(y) = 0 THEN <<>>
         ELSE NoLeadingZeros(Ripple(CarryPass(Spread(
                <<>> \o [p \in 1..(Len(x) + Len(y)) |->
                           Sum([n \in 1..Len(x) |->
                                   IF 1 <= p - n /\ p - n <= Len(y)
                                   THEN x[n] * y[p - n] ELSE 0],
                               1..Len(x))]))))
         : x \in {a}, y \in {b}} : TRUE

RECURSIVE NumeralOf(_)
NumeralOf(n) == IF n = 0 THEN <<>> ELSE NumeralOf(n \div 10) \o <<n % 10>>

\* b^e for b in 2..5, by squaring
RECURSIVE Power(_, _)
Power(b, e) ==
    IF e <= 13 THEN NumeralOf(b ^ e)
    ELSE CHOOSE r \in
            {IF e % 2 = 1 THEN Times(sq, <<b>>) ELSE sq
             : sq \in {Times(h, h) : h \in {Power(b, e \div 2)}}} : TRUE

RECURSIVE Successor(_)
Successor(a) ==
    CHOOSE r \in
        {IF Len(x) = 0 THEN <<1>>
         ELSE IF x[Len(x)] < 9 THEN SubSeq(x, 1, Len(x) - 1) \o <<x[Len(x)] + 1>>
         ELSE Successor(SubSeq(x, 1, Len(x) - 1)) \o <<0>>
         : x \in {a}} : TRUE

RECURSIVE SmallValue(_)
SmallValue(a) == IF Len(a) = 0 THEN 0
                 ELSE 10 * SmallValue(SubSeq(a, 1, Len(a) - 1)) + a[Len(a)]

\* the value of an exponent's digits, cut off at ExponentCap: beyond it the
\* result is an infinity or a zero whatever the digits are
ExponentCap == 1000000
CappedValue(a) ==
    CHOOSE r \in
        {IF Len(d) > 6 THEN ExponentCap ELSE SmallValue(d)
         : d \in {NoLeadingZeros(a)}} : TRUE

\* ---- IEEE 754 binary64
TwoTo52 == <<4, 5, 0, 3, 5, 9, 9, 6, 2, 7, 3, 7, 0, 4, 9, 6>>
TwoTo53 == <<9, 0, 0, 7, 1, 9, 9, 2, 5, 4, 7, 4, 0, 9, 9, 2>>
MinExp == -1074
MaxExp == 971

\* a double: mant * 2^exp, mant a numeral below 2^53; a normal number has
\* mant >= 2^52, a subnormal one and zero have exp = MinExp
Double(neg, m, e) == [ok |-> TRUE, cls |-> "fin", neg |-> neg, mant |-> m, exp |-> e]
Infinity(neg) == [ok |-> TRUE, cls |-> "inf", neg |-> neg, mant |-> <<>>, exp |-> 0]
NaN == [ok |-> TRUE, cls |-> "nan", neg |-> FALSE, mant |-> <<>>, exp |-> 0]
Raises == [ok |-> FALSE, cls |-> "nan", neg |-> FALSE, mant |-> <<>>, exp |-> 0]
Zero(neg) == Double(neg, <<>>, MinExp)

\* the integer part of n / 10^k
IntPart(n, k) == IF Len(n) > k THEN SubSeq(n, 1, Len(n) - k) ELSE <<>>

\* n / 10^k * 2^e keeps its value while n / 10^k is brought into
\* [2^52, 2^53), or below 2^52 at the least exponent; halving is five times
\* the digits with the point one place further left
RECURSIVE Scale(_, _, _)
Scale(n, k, e) ==
    CHOOSE r \in
        {IF ~NumLess(IntPart(x, k), TwoTo53) THEN Scale(Times(x, <<5>>), k + 1, e + 1)
         ELSE IF NumLess(IntPart(x, k), TwoTo52) /\ e > MinExp
              THEN Scale(Times(x, <<2>>), k, e - 1)
         ELSE [n |-> x, k |-> k, e |-> e]
         : x \in {n}} : TRUE

\* the fraction of n / 10^k against one half: "below", "half" or "above"
Fraction(n, k) ==
    LET p == Len(n) - k + 1
        first == IF k = 0 \/ p < 1 THEN 0 ELSE n[p]
        rest == \E m \in (IF p < 1 THEN 1 ELSE p + 1)..Len(n) : n[m] # 0
    IN  IF k = 0 THEN "below"
        ELSE IF first > 5 \/ (first = 5 /\ rest) THEN "above"
        ELSE IF first = 5 THEN "half"
        ELSE "below"

\* the double nearest to n / 10^k, ties to the even mantissa
Nearest(neg, n, k) ==
    LET est == (((Len(n) - k - 1) * 3322) \div 1000) - 52
        e0 == IF est < MinExp THEN MinExp ELSE est
        Rounded(s, q, m) ==
            LET mant == IF m = TwoTo53 THEN TwoTo52 ELSE m
                exp == IF m = TwoTo53 THEN s.e + 1 ELSE s.e
            IN  IF Len(mant) = 0 THEN Zero(neg)
                ELSE IF exp > MaxExp THEN Infinity(neg)
                ELSE Double(neg, mant, exp)
        Round(s, q, f) ==
            CHOOSE r \in
                {Rounded(s, q, m)
                 : m \in {IF f = "above" \/ (f = "half" /\ Len(q) > 0 /\ q[Len(q)] % 2 = 1)
                          THEN Successor(q) ELSE q}} : TRUE
    IN  CHOOSE r \in
            {Round(s, IntPart(s.n, s.k), Fraction(s.n, s.k))
             : s \in {Scale(n0, IF e0 >= 0 THEN k + e0 ELSE k, e0)
                      : n0 \in {IF e0 >= 0 THEN Times(n, Power(5, e0))
                                           ELSE Times(n, Power(2, 0 - e0))}}} : TRUE

\* the double a decimal literal denotes: digits d, times 10^e10
ToDouble(neg, d, e10) ==
    CHOOSE r \in
        {IF Len(n) = 0 \/ Len(n) + e10 < -323 THEN Zero(neg)
         ELSE IF Len(n) + e10 > 309 THEN Infinity(neg)
         ELSE IF e10 >= 0 THEN Nearest(neg, n \o [z \in 1..e10 |-> 0], 0)
         ELSE Nearest(neg, n, 0 - e10)
         : n \in {NoLeadingZeros(d)}} : TRUE

\* the digits, point and exponent of a float literal without sign and
\* underscores
ParseDecimal(neg, u) ==
    LET epos  == FirstOf(u, {101, 69})
        mtxt  == IF epos = 0 THEN u ELSE SubSeq(u, 1, epos - 1)
        etxt  == IF epos = 0 THEN <<>> ELSE SubSeq(u, epos + 1, Len(u))
        edig  == Unsigned(etxt)
        ppos  == FirstOf(mtxt, {46})
        itxt  == IF ppos = 0 THEN mtxt ELSE SubSeq(mtxt, 1, ppos - 1)
        ftxt  == IF ppos = 0 THEN <<>> ELSE SubSeq(mtxt, ppos + 1, Len(mtxt))
        eval  == IF epos = 0 THEN 0
                 ELSE IF IsNegative(etxt) THEN 0 - CappedValue(Numeral(edig))
                 ELSE CappedValue(Numeral(edig))
    IN  IF /\ AllDigits(itxt) /\ AllDigits(ftxt) /\ Len(itxt) + Len(ftxt) > 0
           /\ (epos # 0 => Len(edig) > 0 /\ AllDigits(edig))
        THEN ToDouble(neg, Numeral(itxt \o ftxt), eval - Len(ftxt))
        ELSE Raises

\* float() of a str
ParseFloat(txt) ==
    LET Parse(a, t, u) ==
            LET word == [n \in 1..Len(u) |->
                            IF 65 <= u[n] /\ u[n] <= 90 THEN u[n] + 32 ELSE u[n]]
            IN  IF ~UnderscoresOk(a) THEN Raises
                \* "inf", "infinity" and "nan" in any letter case
                ELSE IF word \in {<<105, 110, 102>>, <<105, 110, 102, 105, 110, 105, 116, 121>>}
                     THEN Infinity(IsNegative(t))
                ELSE IF word = <<110, 97, 110>> THEN NaN
                ELSE ParseDecimal(IsNegative(t), u)
    IN  CHOOSE r \in
            UNION {UNION {{Parse(a, t, u) : u \in {Unsigned(t)}}
                          : t \in {Strip(SelectSeq(a, NotUnderscore))}}
                   : a \in {<<>> \o ToAscii(txt)}} : TRUE

\* a < b on doubles; false when either is a NaN
DoubleLess(a, b) ==
    LET MagLess(u, v) == u.exp < v.exp \/ (u.exp = v.exp /\ NumLess(u.mant, v.mant))
    IN
    IF a.cls = "nan" \/ b.cls = "nan" THEN FALSE
    ELSE IF a.cls = "inf" THEN a.neg /\ ~(b.cls = "inf" /\ b.neg)
    ELSE IF b.cls = "inf" THEN ~b.neg
    ELSE IF a.neg # b.neg THEN a.neg /\ ~(Len(a.mant) = 0 /\ Len(b.mant) = 0)
    ELSE IF a.neg THEN MagLess(b, a)
    ELSE MagLess(a, b)

\* the float a JSON number of n tenths is read as: the double nearest n / 10
Tenths(n) == ToDouble(n < 0, NumeralOf(IF n < 0 THEN 0 - n ELSE n), -1)

\* float(rating): ok is FALSE where Python raises (ValueError for a str that
\* is no float literal, TypeError for None)
FloatOf(r) ==
    IF r.kind = "num" THEN Tenths(r.num)
    ELSE IF r.kind = "str" THEN ParseFloat(r.str)
    ELSE Raises

\* FloatOf, computed once for the numbers that occur in the data below
KnownRatings ==
    <<NumRating(0), NumRating(50), NumRating(70), NumRating(80),
      StrRating(<<53, 46, 48>>), StrRating(<<56, 46, 53>>)>>
FloatTable == <<>> \o [n \in 1..Len(KnownRatings) |-> FloatOf(KnownRatings[n])]

Float(r) ==
    IF \E n \in 1..Len(KnownRatings) : KnownRatings[n] = r
    THEN FloatTable[CHOOSE n \in 1..Len(KnownRatings) : KnownRatings[n] = r]
    ELSE FloatOf(r)

\* float(rating) >= min_rating, min_rating in tenths; false when either
\* side is a NaN
AtLeast(v, mr) ==
    LET m == Float(NumRating(mr))
    IN  v.cls # "nan" /\ m.cls # "nan" /\ ~DoubleLess(v, m)

\* ------------------------------------------------------ fetch_movie_details
PosterBase == "https://image.tmdb.org/t/p/w500/"
NoImagePoster == <<"https://via.placeholder.com/500x750?text=No+Image">>
ErrorPoster == <<"https://via.placeholder.com/500x750?text=Error">>

\* the tuple returned by the except branch
FallbackDetails ==
    [poster |-> ErrorPoster, genres |-> NA, rating |-> StrRating(NA), cast |-> NA]

\* [genre['name'] for genre in entries]: KeyError when an entry has no name
AllNamed(entries) == \A n \in 1..Len(entries) : entries[n].has_name
Names(entries) == [n \in 1..Len(entries) |-> entries[n].name]

DetailsNoDefaults(resp) ==
    IF resp.kind # "ok" \/ ~resp.poster_path.has \/ ~resp.genres.has
       \/ ~resp.vote_average.has \/ ~resp.credits.has \/ ~resp.credits.has_cast
       \/ ~AllNamed(resp.genres.val) \/ ~AllNamed(resp.credits.cast)
    THEN FallbackDetails
    ELSE [poster |-> <<PosterBase, resp.poster_path.val>>,
          genres |-> Join(CommaSpace, Names(resp.genres.val)),
          rating |-> resp.vote_average.val,
          cast   |-> Join(CommaSpace, Slice(Names(resp.credits.cast), 0, 5))]

\* fetch_movie_details(movie_id), as a function of what the HTTP request
\* for that movie yields.  resp.kind is "ok" when a JSON object came back,
\* and otherwise names the statement that raised (requests.get,
\* raise_for_status, response.json, or data.get on a non-object).
fetch_movie_details(resp) ==
    IF resp.kind # "ok" THEN FallbackDetails
    ELSE
      LET genreEntries == IF resp.genres.has THEN resp.genres.val ELSE <<>>
          castEntries  == IF resp.credits.has /\ resp.credits.has_cast
                          THEN resp.credits.cast ELSE <<>>
      IN  IF ~AllNamed(genreEntries) \/ ~AllNamed(castEntries)
          THEN FallbackDetails
          ELSE [poster |-> IF resp.poster_path.has /\ resp.poster_path.val # ""
                           THEN <<PosterBase, resp.poster_path.val>>
                           ELSE NoImagePoster,
                genres |-> Join(CommaSpace, Names(genreEntries)),
                rating |-> IF resp.vote_average.has THEN resp.vote_average.val
                           ELSE StrRating(NA),
                cast   |-> Join(CommaSpace, Slice(Names(castEntries), 0, 5))]

\* ------------------------------------------------------------ fetch_trailer
YouTubeHome == <<"https://youtube.com">>
WatchBase == "https://www.youtube.com/watch?v="

\* the for loop over data.get('results', []); a video lacking the key that
\* the condition or the f-string reads raises KeyError, which the bare except
\* turns into the fallback URL
RECURSIVE ScanVideos(_)
ScanVideos(vs) ==
    IF Len(vs) = 0 THEN YouTubeHome
    ELSE LET v == vs[1]
         IN  IF ~v.has_type THEN YouTubeHome
             ELSE IF v.type # "Trailer" THEN ScanVideos(Tail(vs))
             ELSE IF ~v.has_site THEN YouTubeHome
             ELSE IF v.site # "YouTube" THEN ScanVideos(Tail(vs))
             ELSE IF ~v.has_key THEN YouTubeHome
             ELSE <<WatchBase, v.key>>

fetch_trailer(vresp) ==
    IF vresp.kind # "ok" THEN YouTubeHome
    ELSE ScanVideos(IF vresp.results.has THEN vresp.results.val ELSE <<>>)

\* ------------------------------------------------------- HTTP response data
Action == <<65, 99, 116, 105, 111, 110>>    \* "Action"
Drama  == <<68, 114, 97, 109, 97>>         \* "Drama"
Comedy == <<67, 111, 109, 101, 100, 121>>   \* "Comedy"
Tom == <<84, 111, 109>>    \* "Tom"
Ann == <<65, 110, 110>>    \* "Ann"
Bo  == <<66, 111>>          \* "Bo"
Cy  == <<67, 121>>         \* "Cy"
Di  == <<68, 105>>         \* "Di"
Ed  == <<69, 100>>         \* "Ed"
\* "Penelope" with an acute accent on the second e
Penelope == <<80, 101, 110, 233, 108, 111, 112, 101>>
\* capital alpha, capital sigma, capital alpha
GreekName == <<913, 931, 913>>

Named(nm) == [has_name |-> TRUE, name |-> nm]
Unnamed == [has_name |-> FALSE, name |-> <<>>]

Present(v) == [has |-> TRUE, val |-> v]
AbsentStr == [has |-> FALSE, val |-> ""]
AbsentList == [has |-> FALSE, val |-> <<>>]
AbsentVote == [has |-> FALSE, val |-> NoneRating]
Credits(castEntries) == [has |-> TRUE, has_cast |-> TRUE, cast |-> castEntries]
CreditsNoCast == [has |-> TRUE, has_cast |-> FALSE, cast |-> <<>>]
AbsentCredits == [has |-> FALSE, has_cast |-> FALSE, cast |-> <<>>]

OkDetails(p, g, v, c) ==
    [kind |-> "ok", poster_path |-> p, genres |-> g, vote_average |-> v, credits |-> c]
\* the request did not yield a JSON object: kind names what raised
FailedDetails(kind) ==
    [kind |-> kind, poster_path |-> AbsentStr, genres |-> AbsentList,
     vote_average |-> AbsentVote, credits |-> AbsentCredits]

FailureKinds == {"connection_error", "http_error", "invalid_json", "not_an_object"}

PosterOptions == {AbsentStr, Present(""), Present("p.jpg")}
GenreOptions ==
    {AbsentList, Present(<<>>), Present(<<Named(Action)>>),
     Present(<<Named(Action), Named(Drama)>>), Present(<<Named(Comedy), Unnamed>>)}
\* the last one is the str "8.5"
VoteOptions ==
    {AbsentVote, Present(NoneRating), Present(NumRating(0)), Present(NumRating(80)),
     Present(StrRating(<<56, 46, 53>>))}
CreditOptions ==
    {AbsentCredits, CreditsNoCast, Credits(<<>>), Credits(<<Named(Tom), Named(Ann)>>),
     Credits(<<Named(Tom), Named(Ann), Named(Bo), Named(Cy), Named(Di), Named(Ed)>>),
     Credits(<<Named(Tom), Named(Ann), Named(Bo), Named(Cy), Named(Di), Unnamed>>)}

\* what one details request can yield
DetailResponses ==
    {FailedDetails(kd) : kd \in FailureKinds}
    \cup {OkDetails(p, g, v, c) :
            p \in PosterOptions, g \in GenreOptions, v \in VoteOptions, c \in CreditOptions}

Video(t, s, k) ==
    [has_type |-> TRUE, type |-> t, has_site |-> TRUE, site |-> s,
     has_key |-> TRUE, key |-> k]
VideoNoType == [has_type |-> FALSE, type |-> "", has_site |-> TRUE, site |-> "YouTube",
                has_key |-> TRUE, key |-> "k0"]
OkVideos(r) == [kind |-> "ok", results |-> r]
FailedVideos == [kind |-> "connection_error", results |-> AbsentList]

\* what the remote service holds for one movie: the answer to its details
\* request and the answer to its videos request
ApiEntry(d, v) == [details |-> d, videos |-> v]

\* a movie answered in full, rated 8.0
FullEntry ==
    ApiEntry(OkDetails(Present("a.jpg"), Present(<<Named(Action), Named(Drama)>>),
                       Present(NumRating(80)),
                       Credits(<<Named(Tom), Named(Ann), Named(Bo), Named(Cy),
                                 Named(Di), Named(Ed)>>)),
             OkVideos(Present(<<Video("Teaser", "YouTube", "k1"),
                                Video("Trailer", "Vimeo", "k2"),
                                Video("Trailer", "YouTube", "k3")>>)))
\* a movie rated 0.0 with a Greek cast name and no poster
GreekCastEntry ==
    ApiEntry(OkDetails(AbsentStr, Present(<<Named(Drama)>>),
                       Present(NumRating(0)), Credits(<<Named(Tom), Named(GreekName)>>)),
             OkVideos(Present(<<VideoNoType, Video("Trailer", "YouTube", "k4")>>)))
\* a movie without a rating
UnratedEntry ==
    ApiEntry(OkDetails(Present("d.jpg"), Present(<<Named(Action)>>),
                       AbsentVote, Credits(<<Named(Tom)>>)),
             OkVideos(AbsentList))
\* a movie whose requests fail
FailedEntry == ApiEntry(FailedDetails("connection_error"), FailedVideos)

\* the third is a movie whose rating is the str "5.0", the fourth one of
\* which the service knows nothing
ApiEntries ==
    { FullEntry, GreekCastEntry,
      ApiEntry(OkDetails(Present("b.jpg"), Present(<<Named(Comedy)>>),
                         Present(StrRating(<<53, 46, 48>>)),
                         Credits(<<Named(Penelope)>>)),
               OkVideos(Present(<<>>))),
      ApiEntry(OkDetails(AbsentStr, AbsentList, AbsentVote, AbsentCredits),
               FailedVideos),
      UnratedEntry, FailedEntry }

\* --------------------------------------------------------------- recommend
\* positions whose title equals `title`: movies[movies['title'] == movie]
TitleRows(mv, title) == {p \in 0..(Len(mv) - 1) : mv[p + 1].title = title}

\* .index[0] of a non-empty selection: the earliest position
FirstRow(rows) == CHOOSE p \in rows : \A q \in rows : p <= q

\* list(enumerate(row)): pairs <<position, score>>
Enumerate(row) == [n \in 1..Len(row) |-> <<n - 1, row[n]>>]

RECURSIVE InsertDescUnstable(_, _)
InsertDescUnstable(x, s) ==
    IF Len(s) = 0 THEN <<x>>
    ELSE IF s[1][2] > x[2] THEN <<s[1]>> \o InsertDescUnstable(x, Tail(s))
    ELSE <<x>> \o s

\* place x in a list sorted by non-increasing key, behind every element whose
\* key is at least x's: sorted() is stable, also under reverse=True
RECURSIVE InsertDesc(_, _)
InsertDesc(x, s) ==
    IF Len(s) = 0 THEN <<x>>
    ELSE IF s[1][2] >= x[2] THEN <<s[1]>> \o InsertDesc(x, Tail(s))
    ELSE <<x>> \o s

\* sorted(pairs, reverse=True, key=lambda x: x[1])
RECURSIVE SortedReverse(_)
SortedReverse(pairs) ==
    IF Len(pairs) = 0 THEN <<>>
    ELSE InsertDesc(pairs[Len(pairs)], SortedReverse(SubSeq(pairs, 1, Len(pairs) - 1)))

SelectedShort(dist, n) == Slice(dist, 1, n)

\* distances[1:num_results + 1]
Selected(dist, n) == Slice(dist, 1, n + 1)

Entry(title, det, trailer) ==
    [Title |-> title, Poster |-> det.poster, Genres |-> det.genres,
     Rating |-> det.rating, Cast |-> det.cast, Trailer |-> trailer]

DetailsCall(id) == [fn |-> "fetch_movie_details", movie_id |-> id]
TrailerCall(id) == [fn |-> "fetch_trailer", movie_id |-> id]

\* one pass of recommend's for loop, for the pair pr = <<position, score>>;
\* st is [recommendations, calls]
RecommendBody(mv, ap, pr, st) ==
    LET movie_id == mv[pr[1] + 1].movie_id
        title    == mv[pr[1] + 1].title
        det      == fetch_movie_details(ap[movie_id].details)
        trailer  == fetch_trailer(ap[movie_id].videos)
    IN  [recommendations |-> Append(st.recommendations, Entry(title, det, trailer)),
         calls |-> st.calls \o <<DetailsCall(movie_id), TrailerCall(movie_id)>>]

RECURSIVE RecommendLoop(_, _, _, _)
RecommendLoop(mv, ap, sel, st) ==
    IF Len(sel) = 0 THEN st
    ELSE RecommendLoop(mv, ap, Tail(sel), RecommendBody(mv, ap, sel[1], st))

\* recommend(movie, num_results) where the title is in the catalog
RecommendRun(mv, sim, ap, title, n) ==
    LET idx == FirstRow(TitleRows(mv, title))
        dist == SortedReverse(Enumerate(sim[idx + 1]))
    IN  RecommendLoop(mv, ap, Selected(dist, n),
                      [recommendations |-> <<>>, calls |-> <<>>]).recommendations

\* ----------------------------------------------- filter_movies_by_criteria
\* genre.lower() in genres.lower() and cast.lower() in cast_list.lower()
TextMatches(g, c, genres, cast_list) ==
    Contains(Lower(g), Lower(genres)) /\ Contains(Lower(c), Lower(cast_list))

QuotaNeverFilled(m, n) == FALSE

\* len(matched) >= num_results
QuotaFilled(m, n) == Len(m) >= n

AfterBadRatingBreak(st) == [st EXCEPT !.broke = TRUE]

\* except: continue
AfterBadRating(st) == st

\* one pass of the for loop over range(len(movies)), at position st.i;
\* st is [i, matched, calls, broke]
FilterBody(mv, ap, g, c, mr, n, st) ==
    LET movie_id == mv[st.i + 1].movie_id
        title    == mv[st.i + 1].title
        det      == fetch_movie_details(ap[movie_id].details)
        trailer  == fetch_trailer(ap[movie_id].videos)
        fetched  == [st EXCEPT !.i = st.i + 1,
                               !.calls = st.calls \o <<DetailsCall(movie_id),
                                                       TrailerCall(movie_id)>>]
        rating   == Float(det.rating)
    IN  IF ~TextMatches(g, c, det.genres, det.cast) THEN fetched
        ELSE IF ~rating.ok THEN AfterBadRating(fetched)
        ELSE IF ~AtLeast(rating, mr) THEN fetched
        ELSE LET m == Append(st.matched, Entry(title, det, trailer))
             IN  [fetched EXCEPT !.matched = m, !.broke = QuotaFilled(m, n)]

FilterStart == [i |-> 0, matched |-> <<>>, calls |-> <<>>, broke |-> FALSE]

RECURSIVE FilterLoop(_, _, _, _, _, _, _)
FilterLoop(mv, ap, g, c, mr, n, st) ==
    IF st.broke \/ st.i >= Len(mv) THEN st
    ELSE FilterLoop(mv, ap, g, c, mr, n, FilterBody(mv, ap, g, c, mr, n, st))

\* filter_movies_by_criteria(genre, cast, min_rating, num_results)
FilterRun(mv, ap, g, c, mr, n) == FilterLoop(mv, ap, g, c, mr, n, FilterStart).matched

\* ---------------------------------------------------------------- create_pdf
\* create_pdf(recs): the exception that leaves it, "" when it returns the
\* PDF bytes.  The poster download and the image handling sit in a try that
\* absorbs every failure.  The text is written with a core font, which is
\* Latin-1: a character outside it raises, UnicodeEncodeError in PyFPDF
\* (pdf.output), FPDFUnicodeEncodingException in fpdf2 (multi_cell).  With
\* Latin-1 text PyFPDF returns a str, which line 138 encodes; fpdf2 returns
\* a bytearray, on which .encode raises AttributeError.  The repository does
\* not fix which of the two `fpdf` is.
create_pdf(recs) ==
    LET \* the text written for a movie (lines 129-135), less the parts that
        \* are ASCII by construction
        text(rec) == rec.Genres \o rec.Cast
                        \o (IF rec.Rating.kind = "str" THEN rec.Rating.str ELSE <<>>)
        latin1(s) == \A n \in 1..Len(s) : s[n] < 256
    IN
    IF \A n \in 1..Len(recs) : latin1(text(recs[n]))
    THEN {"", "AttributeError"}
    ELSE {"UnicodeEncodeError", "FPDFUnicodeEncodingException"}

\* ------------------------------------------------------------ program state
VARIABLES
    movies,           \* the catalog DataFrame: rows [movie_id, title]
    similarity,       \* the similarity matrix, row p + 1 for position p
    api,              \* the remote service: movie_id -> ApiEntry
    caller,           \* who calls the functions: the page, or a direct call
    pc,               \* where the script is
    movie,            \* recommend's argument
    num_results,      \* the page's slider, recommend's and the filter's argument
    genre, cast, min_rating,       \* the filter's arguments
    index, distances, cursor,      \* recommend's locals; cursor counts loop passes
    recommendations,  \* recommend's result list
    i, matched, broke,             \* the filter's loop position, result list, break taken
    calls,            \* the external calls issued by the running function, in order
    exc,              \* the exception that ended the run, "" if none
    ui,               \* what the page has put in its main column in this run
    response,         \* the answer to a single details request
    details           \* what fetch_movie_details returned for it

vars == <<movies, similarity, api, caller, pc, movie, num_results, genre, cast, min_rating,
          index, distances, cursor, recommendations, i, matched, broke, calls,
          exc, ui, response, details>>

TitlePool == <<"A", "B", "C", "D", "E", "F">>
MissingTitle == "Z"

MovieId(p) == 100 + p

\* a catalog of n movies; with dup, the last row repeats the first title
Catalog(n, dup) ==
    [r \in 1..n |-> [movie_id |-> MovieId(r - 1),
                     title |-> IF dup /\ r = n /\ n > 1 THEN TitlePool[1]
                               ELSE TitlePool[r]]]

Ids(mv) == {mv[r].movie_id : r \in 1..Len(mv)}
Titles(mv) == {mv[r].title : r \in 1..Len(mv)}

\* a symmetric n x n matrix whose diagonal holds the top score
UpperPairs(n) == {pr \in (1..n) \X (1..n) : pr[1] < pr[2]}
Matrix(n, f) ==
    [a \in 1..n |-> [b \in 1..n |->
        IF a = b THEN MaxScore ELSE IF a < b THEN f[<<a, b>>] ELSE f[<<b, a>>]]]

UnsetDetails == [poster |-> <<>>, genres |-> <<>>, rating |-> NoneRating, cast |-> <<>>]

Idle ==
    /\ pc = "idle"
    /\ movie = "" /\ num_results = 0
    /\ genre = <<>> /\ cast = <<>> /\ min_rating = 0
    /\ index = 0 /\ distances = <<>> /\ cursor = 0
    /\ recommendations = <<>>
    /\ i = 0 /\ matched = <<>> /\ broke = FALSE
    /\ calls = <<>> /\ exc = "" /\ ui = <<>>
    /\ response = FailedDetails("connection_error")
    /\ details = UnsetDetails

\* the two services the ranking is run against: every movie answered in
\* full, or every request failing
RecommendWorlds == {FullEntry, FailedEntry}

InitRecommend ==
    /\ \E n \in 1..MaxMovies, dup \in BOOLEAN :
         /\ movies = Catalog(n, dup)
         /\ \E f \in [UpperPairs(n) -> 0..MaxScore] : similarity = Matrix(n, f)
         /\ \E e \in RecommendWorlds : api = [id \in Ids(Catalog(n, dup)) |-> e]
    /\ Idle

InitRecommendPage == InitRecommend /\ caller = "page"
InitRecommendCall == InitRecommend /\ caller = "direct"

InitFilter ==
    /\ \E n \in 1..MaxMovies :
         /\ movies = Catalog(n, FALSE)
         /\ similarity = Matrix(n, [pr \in UpperPairs(n) |-> 0])
         /\ api \in [Ids(Catalog(n, FALSE)) -> ApiEntries]
    /\ Idle

InitFilterPage == InitFilter /\ caller = "page"
InitFilterCall == InitFilter /\ caller = "direct"

\* the services the whole script is run against: each movie rated, unrated,
\* or with a cast name outside Latin-1
PageWorlds == {FullEntry, UnratedEntry, GreekCastEntry}

InitPage ==
    /\ \E n \in 1..MaxMovies :
         /\ movies = Catalog(n, FALSE)
         /\ similarity = Matrix(n, [pr \in UpperPairs(n) |-> 0])
         /\ api \in [Ids(Catalog(n, FALSE)) -> PageWorlds]
    /\ Idle
    /\ caller = "page"

InitFetch ==
    /\ movies = Catalog(1, FALSE)
    /\ similarity = Matrix(1, <<>>)
    /\ api = [id \in Ids(Catalog(1, FALSE)) |-> FailedEntry]
    /\ caller = "direct"
    /\ pc = "idle"
    /\ movie = "" /\ num_results = 0
    /\ genre = <<>> /\ cast = <<>> /\ min_rating = 0
    /\ index = 0 /\ distances = <<>> /\ cursor = 0
    /\ recommendations = <<>>
    /\ i = 0 /\ matched = <<>> /\ broke = FALSE
    /\ calls = <<>> /\ exc = "" /\ ui = <<>>
    /\ response \in DetailResponses
    /\ details = UnsetDetails

loaded == <<movies, similarity, api, caller>>
recommendLocals == <<movie, index, distances, cursor, recommendations>>
filterLocals == <<genre, cast, min_rating, i, matched, broke>>
fetchLocals == <<response, details>>

\* ---------------------------------------------------------------- recommend
\* recommend(t, n) is entered: lines 52-55.  A title that selects no row
\* makes .index[0] raise IndexError, which nothing catches.
RecommendCall(t, n) ==
    /\ movie' = t
    /\ num_results' = n
    /\ cursor' = 0
    /\ calls' = <<>>
    /\ IF TitleRows(movies, t) = {}
       THEN /\ pc' = "raised"
            /\ exc' = "IndexError"
            /\ UNCHANGED <<index, distances, recommendations>>
       ELSE /\ pc' = "recommend"
            /\ index' = FirstRow(TitleRows(movies, t))
            /\ distances' = SortedReverse(Enumerate(similarity[index' + 1]))
            /\ recommendations' = <<>>
            /\ UNCHANGED exc
    /\ UNCHANGED <<loaded, filterLocals, fetchLocals>>

\* one pass of the loop at lines 57-70
RecommendIter ==
    /\ pc = "recommend"
    /\ cursor < Len(Selected(distances, num_results))
    /\ \E st \in {RecommendBody(movies, api, Selected(distances, num_results)[cursor + 1],
                               [recommendations |-> recommendations, calls |-> calls])} :
           /\ recommendations' = st.recommendations
           /\ calls' = st.calls
    /\ cursor' = cursor + 1
    /\ UNCHANGED <<loaded, pc, movie, num_results, index, distances, exc, ui,
                   filterLocals, fetchLocals>>

\* line 72
RecommendReturn ==
    /\ pc = "recommend"
    /\ cursor = Len(Selected(distances, num_results))
    /\ pc' = "recommend_returned"
    /\ UNCHANGED <<loaded, movie, num_results, index, distances, cursor,
                   recommendations, calls, exc, ui, filterLocals, fetchLocals>>

\* ------------------------------------------------- filter_movies_by_criteria
\* filter_movies_by_criteria(g, c, mr, n) is entered: line 75
FilterCall(g, c, mr, n) ==
    /\ genre' = g /\ cast' = c /\ min_rating' = mr /\ num_results' = n
    /\ i' = 0 /\ matched' = <<>> /\ broke' = FALSE
    /\ calls' = <<>>
    /\ pc' = "filter"
    /\ UNCHANGED <<loaded, exc, recommendLocals, fetchLocals>>

\* one pass of the loop at lines 76-96
FilterIter ==
    /\ pc = "filter"
    /\ ~broke
    /\ i < Len(movies)
    /\ \E st \in {FilterBody(movies, api, genre, cast, min_rating, num_results,
                            [i |-> i, matched |-> matched, calls |-> calls,
                             broke |-> broke])} :
           /\ i' = st.i
           /\ matched' = st.matched
           /\ calls' = st.calls
           /\ broke' = st.broke
    /\ UNCHANGED <<loaded, pc, genre, cast, min_rating, num_results, exc, ui,
                   recommendLocals, fetchLocals>>

\* line 98
FilterReturn ==
    /\ pc = "filter"
    /\ broke \/ i >= Len(movies)
    /\ pc' = "filter_returned"
    /\ UNCHANGED <<loaded, genre, cast, min_rating, num_results, i, matched, broke,
                   calls, exc, ui, recommendLocals, fetchLocals>>

\* ------------------------------------------------------------------ the page
\* ui lists what the script puts in the main column, by the text shown
\* (emoji left out); a movie's card (lines 167-172, 187-192) is written as
\* its title
Cards(recs) == [n \in 1..Len(recs) |-> recs[n].Title]

\* the values the slider of line 149 offers, up to the bound
SliderValues == 1..MaxCount

\* the text typed into the two filter boxes: nothing, "action", "tom",
\* "PEN" followed by a capital E with acute accent, capital alpha and sigma
GenreInputs == {<<>>, <<97, 99, 116, 105, 111, 110>>}
CastInputs == {<<>>, <<116, 111, 109>>, <<80, 69, 78, 201>>, <<913, 931>>}
\* the minimum rating chosen on the slider of line 156, in tenths
MinRatings == {0, 50}

\* lines 142-161: the script starts, reads the sidebar, and calls the filter,
\* which it does only when a criterion is set
ApplyFilters ==
    /\ pc = "idle"
    /\ caller = "page"
    /\ \E g \in GenreInputs, c \in CastInputs, mr \in MinRatings, n \in SliderValues :
         /\ Len(g) > 0 \/ Len(c) > 0 \/ mr > 0
         /\ FilterCall(g, c, mr, n)
    /\ ui' = <<"Movie Recommendation System">>

\* lines 162-180: the branch on the filter's result.  A non-empty result is
\* shown and handed to create_pdf, whose exception nothing catches; an
\* empty one gives the warning.
ShowFiltered ==
    /\ pc = "filter_returned"
    /\ caller = "page"
    /\ IF Len(matched) = 0
       THEN /\ ui' = ui \o <<"No movies matched your filters.", "---">>
            /\ pc' = "filters_shown"
            /\ UNCHANGED exc
       ELSE \E raised \in create_pdf(matched) :
              IF raised = ""
              THEN /\ ui' = ui \o <<"Filtered Results">> \o Cards(matched)
                              \o <<"Download Filtered Results as PDF", "---">>
                   /\ pc' = "filters_shown"
                   /\ UNCHANGED exc
              ELSE /\ ui' = ui \o <<"Filtered Results">> \o Cards(matched)
                   /\ pc' = "raised"
                   /\ exc' = raised
    /\ UNCHANGED <<loaded, num_results, calls, recommendLocals, filterLocals, fetchLocals>>

\* lines 180-182: the button is pressed and recommend is called with a title
\* picked from movie_list and the slider's value; in a run that sets no
\* criterion the script comes here from its start (lines 142-160, 179)
ShowRecommendations ==
    /\ caller = "page"
    /\ \E t \in Titles(movies) :
         \/ /\ pc = "idle"
            /\ \E n \in SliderValues : RecommendCall(t, n)
            /\ ui' = <<"Movie Recommendation System", "---">>
         \/ /\ pc = "filters_shown"
            /\ RecommendCall(t, num_results)
            /\ UNCHANGED ui

\* lines 183-195: the list is shown.  st.columns(0) raises for an empty
\* list; a non-empty one is handed to create_pdf.
ShowRecommended ==
    /\ pc = "recommend_returned"
    /\ caller = "page"
    /\ IF Len(recommendations) = 0
       THEN /\ ui' = Append(ui, "Recommended Movies")
            /\ pc' = "raised"
            /\ exc' = "StreamlitAPIException"
       ELSE \E raised \in create_pdf(recommendations) :
              IF raised = ""
              THEN /\ ui' = ui \o <<"Recommended Movies">> \o Cards(recommendations)
                              \o <<"Download Recommendations as PDF">>
                   /\ pc' = "recommendations_shown"
                   /\ UNCHANGED exc
              ELSE /\ ui' = ui \o <<"Recommended Movies">> \o Cards(recommendations)
                   /\ pc' = "raised"
                   /\ exc' = raised
    /\ UNCHANGED <<loaded, num_results, calls, recommendLocals, filterLocals, fetchLocals>>

\* the next interaction reruns the script from the top, once the run has
\* ended: the button not pressed, the recommendations shown, or an
\* exception; a direct caller goes on to its next call
Rerun ==
    /\ \/ caller = "page" /\ pc \in {"filters_shown", "recommendations_shown", "raised"}
       \/ caller = "direct" /\ pc \in {"recommend_returned", "filter_returned", "raised"}
    /\ pc' = "idle"
    /\ movie' = "" /\ num_results' = 0
    /\ genre' = <<>> /\ cast' = <<>> /\ min_rating' = 0
    /\ index' = 0 /\ distances' = <<>> /\ cursor' = 0
    /\ recommendations' = <<>>
    /\ i' = 0 /\ matched' = <<>> /\ broke' = FALSE
    /\ calls' = <<>> /\ exc' = "" /\ ui' = <<>>
    /\ UNCHANGED <<loaded, fetchLocals>>

\* ------------------------------------------------------ fetch_movie_details
\* fetch_movie_details is called once, the request yielding `response`
FetchDetails ==
    /\ pc = "idle"
    /\ details' = fetch_movie_details(response)
    /\ pc' = "fetched"
    /\ UNCHANGED <<loaded, movie, num_results, genre, cast, min_rating, index,
                   distances, cursor, recommendations, i, matched, broke, calls,
                   exc, ui, response>>

\* ------------------------------------------------------------- direct calls
\* the functions called directly, with arguments the page never passes: a
\* title that is in no row, no criterion at all, a count of 0
RequestTitles == {TitlePool[r] : r \in 1..MaxMovies} \cup {MissingTitle}
DirectGenres == {<<>>, <<97, 99, 116, 105, 111, 110>>}
DirectCasts == {<<>>, <<116, 111, 109>>}

CallRecommend ==
    /\ pc = "idle"
    /\ caller = "direct"
    /\ \E t \in RequestTitles, n \in 0..MaxCount : RecommendCall(t, n)
    /\ UNCHANGED ui

CallFilter ==
    /\ pc = "idle"
    /\ caller = "direct"
    /\ \E g \in DirectGenres, c \in DirectCasts, mr \in MinRatings, n \in 0..MaxCount :
         FilterCall(g, c, mr, n)
    /\ UNCHANGED ui

\* ----------------------------------------------------------- specifications
\* the whole script
NextPage ==
    \/ ApplyFilters
    \/ FilterIter
    \/ FilterReturn
    \/ ShowFiltered
    \/ ShowRecommendations
    \/ RecommendIter
    \/ RecommendReturn
    \/ ShowRecommended
    \/ Rerun

\* the runs of the script in which no criterion is set
NextRecommend ==
    \/ ShowRecommendations
    \/ RecommendIter
    \/ RecommendReturn
    \/ ShowRecommended
    \/ Rerun

\* the runs of the script in which the button is not pressed
NextFilter ==
    \/ ApplyFilters
    \/ FilterIter
    \/ FilterReturn
    \/ ShowFiltered
    \/ Rerun

NextRecommendCall ==
    \/ CallRecommend
    \/ RecommendIter
    \/ RecommendReturn
    \/ Rerun

NextFilterCall ==
    \/ CallFilter
    \/ FilterIter
    \/ FilterReturn
    \/ Rerun

NextFetch == FetchDetails

\* the page
SpecPage == InitPage /\ [][NextPage]_vars
SpecRecommend == InitRecommendPage /\ [][NextRecommend]_vars
SpecFilter == InitFilterPage /\ [][NextFilter]_vars
\* the functions called directly
SpecRecommendCall == InitRecommendCall /\ [][NextRecommendCall]_vars
SpecFilterCall == InitFilterCall /\ [][NextFilterCall]_vars
SpecFetch == InitFetch /\ [][NextFetch]_vars

\* ------------------------------------------------- vocabulary of the claims
\* the catalog position of a movie id
PosOf(id) == CHOOSE p \in 0..(Len(movies) - 1) : movies[p + 1].movie_id = id

\* the position of the n-th movie the running function put in its result,
\* read off the details call issued for it
ReturnedPos(n) == PosOf(calls[2 * n - 1].movie_id)

\* the similarity of position q to the requested title's position
Score(q) == similarity[index + 1][q + 1]

ValidRequest == movie \in Titles(movies) /\ num_results \in 1..(Len(movies) - 1)

\* the display metadata of the movie at position q
Meta(q) == fetch_movie_details(api[movies[q + 1].movie_id].details)

\* a character with letter case set aside: its small letter, the final
\* small sigma taken for the small sigma
Fold(c) == IF c = 962 THEN 963 ELSE ToLower(c)

SameLetter(a, b) == Fold(a) = Fold(b)

\* sub occurs in s, letter case disregarded
CIContains(sub, s) ==
    \E off \in 0..(Len(s) - Len(sub)) :
        \A n \in 1..Len(sub) : SameLetter(sub[n], s[off + n])

\* the rating texts of the catalog data that denote a number, with their
\* value in tenths
NumericTexts == (<<53, 46, 48>> :> 50) @@ (<<56, 46, 53>> :> 85)

IsNumber(r) == r.kind = "num" \/ (r.kind = "str" /\ r.str \in DOMAIN NumericTexts)
NumberOf(r) == IF r.kind = "num" THEN r.num ELSE NumericTexts[r.str]

\* the catalog row's rating is a number
RowHasNumber(row) == IsNumber(fetch_movie_details(api[row.movie_id].details).rating)

\* the matching rule of the criteria filter, for the current arguments
Matching(q) ==
    LET md == Meta(q)
    IN  /\ IsNumber(md.rating)
        /\ NumberOf(md.rating) >= min_rating
        /\ CIContains(genre, md.genres)
        /\ CIContains(cast, md.cast)

MatchesBefore(q) == Cardinality({m \in 0..(q - 1) : Matching(m)})
AllMatches == Cardinality({m \in 0..(Len(movies) - 1) : Matching(m)})

\* the result entry of the movie at position q
EntryOf(q) ==
    Entry(movies[q + 1].title, Meta(q), fetch_trailer(api[movies[q + 1].movie_id].videos))

TitlesOf(res) == [n \in 1..Len(res) |-> res[n].Title]

\* the scenarios of the specification, as literal inputs
ScenarioCatalog == Catalog(3, FALSE)
ScenarioSimilarity == <<<<10, 8, 3>>, <<8, 10, 0>>, <<3, 0, 10>>>>
ScenarioDetails(g, v) ==
    OkDetails(Present("s.jpg"), Present(g), v, Credits(<<Named(Tom)>>))
ScenarioApi(d) == [id \in Ids(ScenarioCatalog) |-> ApiEntry(d, OkVideos(Present(<<>>)))]
GenreScenarioApi ==
    [id \in {MovieId(0), MovieId(1)} |->
        ApiEntry(ScenarioDetails(IF id = MovieId(0)
                                 THEN <<Named(Action), Named(Drama)>>
                                 ELSE <<Named(Comedy)>>, Present(NumRating(70))),
                 OkVideos(Present(<<>>)))]

\* recommend("A", 2) over the catalog [A, B, C] with row A = [1.0, 0.8, 0.3]
RankScenarioTitles ==
    TitlesOf(RecommendRun(ScenarioCatalog, ScenarioSimilarity,
                          ScenarioApi(FailedDetails("http_error")), "A", 2))

\* filterByCriteria("action", "", 0.0, 10) over A "Action, Drama", B "Comedy"
GenreScenarioTitles ==
    TitlesOf(FilterRun(Catalog(2, FALSE), GenreScenarioApi,
                       <<97, 99, 116, 105, 111, 110>>, <<>>, 0, 10))

\* filterByCriteria("", "", 5.0, 10) over three movies of unknown rating
UnknownScenarioResult ==
    FilterRun(ScenarioCatalog, ScenarioApi(ScenarioDetails(<<Named(Action)>>, AbsentVote)),
              <<>>, <<>>, 50, 10)

\* --------------------------------------------------------------- the claims

\* C1: for a title in the catalog, at position p, and N in [1, catalogSize-1],
\* no movie returned by recommend is the movie at position p.
C1_NeverSelf ==
    (pc = "recommend_returned" /\ ValidRequest)
        => \A n \in 1..Len(recommendations) : ReturnedPos(n) # index

\* C2: the movies recommend returns are in non-increasing order of their
\* similarity to the requested title, equal scores in ascending catalog
\* position; and for the catalog [A, B, C] with row A = [1.0, 0.8, 0.3],
\* recommend("A", 2) is [B, C].
C2_RankedOrder ==
    /\ pc = "recommend_returned" =>
         \A n \in 1..(Len(recommendations) - 1) :
            \/ Score(ReturnedPos(n)) > Score(ReturnedPos(n + 1))
            \/ /\ Score(ReturnedPos(n)) = Score(ReturnedPos(n + 1))
               /\ ReturnedPos(n) < ReturnedPos(n + 1)
    /\ RankScenarioTitles = <<"B", "C">>

C2_Witness ==
    /\ pc = "recommend_returned"
    /\ Len(recommendations) = 2
    /\ Score(ReturnedPos(1)) = Score(ReturnedPos(2))
    /\ Score(ReturnedPos(1)) < MaxScore

\* C3: for a title in the catalog and N in [1, catalogSize-1], recommend
\* returns exactly N results.
C3_ExactlyN ==
    (pc = "recommend_returned" /\ ValidRequest) => Len(recommendations) = num_results

C3_Witness ==
    /\ pc = "recommend_returned"
    /\ ValidRequest
    /\ num_results = 2
    /\ Len(recommendations) = 2

\* C4: recommend called with a title that is not in the catalog fails with
\* NotFoundError, a failure reported to its caller.
C4_NotFoundError ==
    (pc # "idle" /\ movie \notin Titles(movies))
        => pc = "raised" /\ exc = "NotFoundError"

\* C5: with count >= 1 the filter returns, in catalog order, exactly the
\* first count movies that match (all of them if there are fewer), a movie
\* matching when the genre text and the cast text occur, case disregarded,
\* in its Genres and Cast strings and its Rating is a number >= minRating;
\* and with Genres "Action, Drama" for A and "Comedy" for B,
\* filterByCriteria("action", "", 0.0, 10) returns only A.
C5_FirstMatches ==
    /\ (pc = "filter_returned" /\ num_results >= 1) =>
         /\ Len(matched) = IF AllMatches < num_results THEN AllMatches ELSE num_results
         /\ \A n \in 1..Len(matched) :
               \E q \in 0..(Len(movies) - 1) :
                  /\ Matching(q)
                  /\ MatchesBefore(q) = n - 1
                  /\ matched[n] = EntryOf(q)
    /\ GenreScenarioTitles = <<"A">>

\* C6: whatever the metadata, movies with a non-numeric rating included,
\* filterByCriteria("", "", 0.0, N) with N in [1, catalogSize] returns the
\* movies at positions 0..N-1, in catalog order.
C6_FirstNAnyRating ==
    (pc = "filter_returned" /\ Len(genre) = 0 /\ Len(cast) = 0 /\ min_rating = 0
       /\ num_results \in 1..Len(movies))
        => matched = [n \in 1..num_results |-> EntryOf(n - 1)]

\* C7: for every integer count the function accepts, the filter returns at
\* most count results.
C7_AtMostCount ==
    pc = "filter_returned" => Len(matched) <= num_results

\* C8: the filter inspects the catalog in position order, each position at
\* most once and so at most catalogSize of them; and once count matches are
\* collected the scan has stopped: the last position inspected is the one
\* that supplied the count-th match, and no metadata or trailer call was
\* issued for a later one.
C8_StopsAtQuota ==
    pc \in {"filter", "filter_returned", "filters_shown"} =>
      /\ i <= Len(movies)
      /\ Len(calls) = 2 * i
      /\ \A q \in 0..(i - 1) :
            /\ calls[2 * q + 1] = DetailsCall(movies[q + 1].movie_id)
            /\ calls[2 * q + 2] = TrailerCall(movies[q + 1].movie_id)
      /\ (num_results >= 1 /\ Len(matched) >= num_results) =>
            /\ Len(matched) = num_results
            /\ matched[num_results].Title = movies[i].title

C8_Witness ==
    /\ pc = "filter_returned"
    /\ num_results = 2
    /\ Len(matched) = 2
    /\ i = 2
    /\ Len(movies) = 3
    /\ Len(calls) = 4
    /\ Matching(2)

\* every movie of the catalog has an unknown rating
AllUnknown == \A q \in 0..(Len(movies) - 1) : ~IsNumber(Meta(q).rating)

\* C9: a movie whose rating is not a number is skipped without ending the
\* scan and without an error: it is not in the result when minRating > 0,
\* the movies after it are treated as if it were not in the catalog (those
\* that match are still returned, up to count), and when every rating is
\* unknown the result is empty and the page then shows the warning that
\* nothing matched, and no error.
C9_UnknownRatingSkipped ==
    /\ pc = "filter_returned" =>
         /\ exc = ""
         /\ min_rating > 0 => \A n \in 1..Len(matched) : IsNumber(matched[n].Rating)
         /\ matched = FilterRun(SelectSeq(movies, RowHasNumber), api,
                                genre, cast, min_rating, num_results)
         /\ AllUnknown => Len(matched) = 0
    /\ (pc = "filters_shown" /\ AllUnknown) =>
         /\ exc = ""
         /\ ui = <<"Movie Recommendation System", "No movies matched your filters.", "---">>
    /\ UnknownScenarioResult = <<>>

C9_Witness ==
    /\ pc = "filter_returned"
    /\ min_rating > 0
    /\ genre = <<97, 99, 116, 105, 111, 110>>
    /\ ~IsNumber(Meta(0).rating)
    /\ CIContains(genre, Meta(0).genres)
    /\ CIContains(cast, Meta(0).cast)
    /\ Len(movies) = 3
    /\ TitlesOf(matched) = <<"B", "C">>

\* what the claim counts as a failure of the details request
RequestFailed(r) == r.kind # "ok"
Malformed(r) ==
    r.kind = "ok" /\ (~AllNamed(r.genres.val) \/ ~AllNamed(r.credits.cast))
MissingFields(r) ==
    r.kind = "ok" /\ (~r.poster_path.has \/ ~r.genres.has \/ ~r.vote_average.has
                      \/ ~r.credits.has \/ ~r.credits.has_cast)

\* C10 as stated: on any failure (network error, malformed response, or a
\* response with missing fields) fetchDetails returns the one fixed fallback
\* tuple.
C10_FallbackOnAnyFailure ==
    (pc = "fetched"
       /\ (RequestFailed(response) \/ Malformed(response) \/ MissingFields(response)))
        => details = FallbackDetails

\* C10 amended: fetchDetails always returns a tuple; it is the fixed fallback
\* tuple when the request fails or a genre or cast entry has no name; in a
\* response that is otherwise well formed a missing field gets its own
\* default instead (the "No Image" placeholder poster, an empty genres
\* string, the "N/A" rating, an empty cast string) while the fields present
\* are kept.
C10_FallbackOrFieldDefaults ==
    pc = "fetched" =>
      /\ details # UnsetDetails
      /\ (RequestFailed(response) \/ Malformed(response)) => details = FallbackDetails
      /\ (~RequestFailed(response) /\ ~Malformed(response)) =>
           /\ details.poster = IF response.poster_path.has /\ response.poster_path.val # ""
                               THEN <<PosterBase, response.poster_path.val>>
                               ELSE NoImagePoster
           /\ ~response.genres.has => details.genres = <<>>
           /\ (response.genres.has /\ response.genres.val # <<>>) =>
                 /\ details.genres # <<>>
                 /\ details.genres # NA
           /\ details.rating = IF response.vote_average.has
                               THEN response.vote_average.val ELSE StrRating(NA)
           /\ (~response.credits.has \/ ~response.credits.has_cast) =>
                 Len(details.cast) = 0
           /\ (response.credits.has /\ response.credits.has_cast) =>
                 details.cast = Join(CommaSpace,
                                     Slice(Names(response.credits.cast), 0, 5))

C10_Witness ==
    /\ pc = "fetched"
    /\ response = OkDetails(AbsentStr, AbsentList, AbsentVote, AbsentCredits)
    /\ details = [poster |-> NoImagePoster, genres |-> <<>>,
                  rating |-> StrRating(NA), cast |-> <<>>]

====
